---- MODULE Spec2Model ----
(***************************************************************************)
(* A model of glhf's Texture (texture.go): a wrapper around an OpenGL 2D   *)
(* texture object.  The state is the set of wrappers the program created,  *)
(* the OpenGL context they talk to (the 2D binding slot and the texture    *)
(* objects), the garbage collector's view of each wrapper and the queue of *)
(* calls handed to the main thread.  Every method of Texture is one        *)
(* action; the OpenGL calls it makes are operators on a "world" record so  *)
(* that a method is the composition of its calls, in the source's order.   *)
(***************************************************************************)
EXTENDS Integers, Sequences, FiniteSets, TLC

VARIABLES
    texs,       \* the Texture wrappers ever created, by identity (1, 2, ...)
    gl,         \* the OpenGL context: [bound |-> TEXTURE_BINDING_2D, tex |-> name -> object]
    life,       \* per wrapper: "reachable", "unreachable", "finalized", "deleted"
    callQueue,  \* mainthread's queue: wrappers whose delete closure waits to run
    status,     \* "ok", "panic" (a Go panic ended the process) or "fault" (undefined behaviour crashed it)
    last,       \* the last operation: its arguments, the state before it and what it did
    nest,       \* history: the Begin calls still open, innermost last, with the slot before each
    nested,     \* history: every Begin/End so far was properly nested and paired
    enq,        \* history: the wrappers whose deletion was enqueued, in order
    deleted,    \* history: the native deletes that ran, in order
    clean,      \* history: per wrapper, the SetSmooth calls that missed or hit its texture
    ops         \* history: the number of calls made so far (in the runs that bound it)

vars == <<texs, gl, life, callQueue, status, last, nest, nested, enq, deleted, clean, ops>>

(***************************************************************************)
(* Bounds of the model.                                                    *)
(***************************************************************************)
\* the number of wrappers a run creates (and of texture names the driver hands out)
MaxTex == 2
\* the number of Begin calls open at once
MaxDepth == 2
\* the width and height of the texture of the pixel specification
MaxW == 2
MaxH == 2
\* the number of SetPixels and Pixels calls of a run of the pixel specification
MaxPixOps == 2
\* the number of calls of a run of the sampler specification
MaxOps == 5
\* the first byte of the buffers written by SetPixels (the following bytes count up, modulo 256)
Seed == 250
\* the first byte of the initial pixels given to NewTexture
InitSeed == 100

(***************************************************************************)
(* Pixel buffers: sequences of bytes.                                      *)
(***************************************************************************)
Zeros(n) == [i \in 1..n |-> 0]

Ramp(seed, n) == [i \in 1..n |-> (seed + i - 1) % 256]

\* what a read past the end of the slice behind gl.Ptr(pixels) may produce:
\* a fault, or some byte for each position past the end
Garbage ==
    {[fault |-> TRUE, byte |-> 0], [fault |-> FALSE, byte |-> 0], [fault |-> FALSE, byte |-> 255]}

\* for a read that stays inside the slice
NoGarbage == [fault |-> FALSE, byte |-> 0]

(***************************************************************************)
(* The OpenGL context.                                                     *)
(***************************************************************************)
Names == 0..MaxTex

\* a texture name OpenGL has not generated (or has deleted)
NoObj ==
    [alive |-> FALSE, w |-> 0, h |-> 0, img |-> <<>>, fixed |-> FALSE, mips |-> FALSE,
     TEXTURE_MIN_FILTER |-> "NEAREST_MIPMAP_LINEAR", TEXTURE_MAG_FILTER |-> "LINEAR",
     TEXTURE_WRAP_S |-> "REPEAT", TEXTURE_WRAP_T |-> "REPEAT",
     TEXTURE_BORDER_COLOR |-> <<0, 0, 0, 0>>]

\* a texture object in its initial state
NewObj == [NoObj EXCEPT !.alive = TRUE]

\* the world a method runs in: the wrappers, the context, the main thread's
\* queue, the OpenGL calls made so far and whether the process still runs
World == [texs |-> texs, gl |-> gl, queue |-> callQueue, calls |-> <<>>, status |-> status]

Ok(W) == W.status = "ok"

Call(W, name) == [W EXCEPT !.calls = Append(@, name)]

Cur(W) == W.gl.tex[W.gl.bound]

\* the bytes the driver reads through a pointer to `data` when it wants n:
\* past the end of the slice the read is undefined
Fetch(data, n, g) ==
    IF Len(data) >= n THEN SubSeq(data, 1, n)
    ELSE data \o [i \in 1..(n - Len(data)) |-> g.byte]

ShortRead(data, n, g) == Len(data) < n /\ g.fault

\* gl.GenTextures(1, &obj): the driver returns a name not in use
GenTextures(W, n) ==
    IF ~Ok(W) THEN W
    ELSE [Call(W, "GenTextures") EXCEPT !.gl.tex[n] = NewObj]

\* gl.BindTexture(gl.TEXTURE_2D, obj): 0 is the default texture; a name that is
\* not a texture is an error in the core profile and leaves the binding alone
BindTexture(W, obj) ==
    IF ~Ok(W) THEN W
    ELSE IF obj \in Names /\ (obj = 0 \/ W.gl.tex[obj].alive)
         THEN [Call(W, "BindTexture") EXCEPT !.gl.bound = obj]
         ELSE Call(W, "BindTexture")

\* gl.TexStorage2D: immutable storage for the bound texture
TexStorage2D(W, levels, w, h) ==
    IF ~Ok(W) THEN W
    ELSE IF W.gl.bound = 0 \/ Cur(W).fixed THEN Call(W, "TexStorage2D")
    ELSE [Call(W, "TexStorage2D") EXCEPT
             !.gl.tex[W.gl.bound] = [@ EXCEPT !.w = w, !.h = h, !.img = Zeros(w * h * 4),
                                              !.fixed = TRUE, !.mips = FALSE]]

\* gl.TexImage2D(level 0, RGBA, w, h, RGBA, UNSIGNED_BYTE, ptr): a new level-0 image
TexImage2D(W, w, h, data, g) ==
    IF ~Ok(W) THEN W
    ELSE IF Cur(W).fixed THEN Call(W, "TexImage2D")
    ELSE IF ShortRead(data, w * h * 4, g) THEN [Call(W, "TexImage2D") EXCEPT !.status = "fault"]
    ELSE [Call(W, "TexImage2D") EXCEPT
             !.gl.tex[W.gl.bound] = [@ EXCEPT !.w = w, !.h = h,
                                              !.img = Fetch(data, w * h * 4, g), !.mips = FALSE]]

\* the level-0 image `img` of width iw with the rectangle (x, y, w, h) replaced by `data`
Blit(img, iw, x, y, w, h, data) ==
    [k \in 1..Len(img) |->
        LET row == (k - 1) \div (iw * 4)
            col == (k - 1) % (iw * 4)
        IN IF row >= y /\ row < y + h /\ col >= x * 4 /\ col < (x + w) * 4
           THEN data[(row - y) * w * 4 + (col - x * 4) + 1]
           ELSE img[k]]

\* gl.TexSubImage2D(level 0, x, y, w, h, RGBA, UNSIGNED_BYTE, ptr): a rectangle
\* outside the bound texture's image is an error and changes nothing
TexSubImage2D(W, x, y, w, h, data, g) ==
    IF ~Ok(W) THEN W
    ELSE IF x < 0 \/ y < 0 \/ w < 0 \/ h < 0 \/ x + w > Cur(W).w \/ y + h > Cur(W).h
         THEN Call(W, "TexSubImage2D")
    ELSE IF ShortRead(data, w * h * 4, g) THEN [Call(W, "TexSubImage2D") EXCEPT !.status = "fault"]
    ELSE [Call(W, "TexSubImage2D") EXCEPT
             !.gl.tex[W.gl.bound] =
                 [@ EXCEPT !.img = Blit(@, Cur(W).w, x, y, w, h, Fetch(data, w * h * 4, g)),
                           !.mips = FALSE]]

\* gl.GenerateMipmap: derives the other levels from level 0, which it leaves alone
GenerateMipmap(W) ==
    IF ~Ok(W) THEN W
    ELSE [Call(W, "GenerateMipmap") EXCEPT !.gl.tex[W.gl.bound].mips = (Cur(W).img # <<>>)]

\* gl.TexParameteri / gl.TexParameterfv on the bound texture
TexParameter(W, pname, value) ==
    IF ~Ok(W) THEN W
    ELSE [Call(W, "TexParameter") EXCEPT !.gl.tex[W.gl.bound][pname] = value]

\* gl.GetTexImage(level 0) into a buffer `buf`: the image of the bound texture,
\* written from the start of the buffer (an image longer than the buffer
\* overruns it: see Pixels)
GetTexImage(buf, img) == img \o SubSeq(buf, Len(img) + 1, Len(buf))

\* gl.DeleteTextures(1, &obj): frees the object and its name; a bound texture
\* is unbound first; a name that is no texture is ignored
DeleteTextures(W, obj) ==
    IF ~Ok(W) THEN W
    ELSE IF obj = 0 \/ ~W.gl.tex[obj].alive THEN Call(W, "DeleteTextures")
    ELSE [Call(W, "DeleteTextures") EXCEPT
             !.gl.tex[obj] = NoObj,
             !.gl.bound = IF @ = obj THEN 0 ELSE @]

(***************************************************************************)
(* The binder of a Texture (tex.bind, tex.restore) and the methods.        *)
(***************************************************************************)
\* binder.bindFunc, as NewTexture sets it
bindFunc(W, obj) == BindTexture(W, obj)

\* binder.bind: records the handle in the slot, then binds obj
bind(W, t) ==
    IF ~Ok(W) THEN W
    ELSE bindFunc([W EXCEPT !.texs[t].tex.prev = Append(@, W.gl.bound)], W.texs[t].tex.obj)

\* binder.restore: binds the handle recorded last and forgets it; with nothing
\* recorded it has nothing to restore and the process ends
restore(W, t) ==
    LET prev == W.texs[t].tex.prev IN
    IF ~Ok(W) THEN W
    ELSE IF prev = <<>> THEN [W EXCEPT !.status = "panic"]
    ELSE [bindFunc(W, prev[Len(prev)]) EXCEPT !.texs[t].tex.prev = SubSeq(prev, 1, Len(prev) - 1)]

Begin(W, t) == bind(W, t)

\* a faulty End: forgets the recorded handle and unbinds instead of restoring it
EndUnbinds(W, t) ==
    LET prev == W.texs[t].tex.prev IN
    IF ~Ok(W) THEN W
    ELSE IF prev = <<>> THEN [W EXCEPT !.status = "panic"]
    ELSE [bindFunc(W, 0) EXCEPT !.texs[t].tex.prev = SubSeq(prev, 1, Len(prev) - 1)]

End(W, t) == restore(W, t)

\* a faulty SetSmooth: sets the filters and forgets the flag
SetSmoothForgets(W, t, smooth) ==
    LET mip == W.texs[t].mipmapLevels > 0
    IN IF ~Ok(W) THEN W
       ELSE TexParameter(
                TexParameter(W, "TEXTURE_MIN_FILTER",
                             IF smooth THEN (IF mip THEN "LINEAR_MIPMAP_LINEAR" ELSE "LINEAR")
                             ELSE (IF mip THEN "LINEAR_MIPMAP_NEAREST" ELSE "NEAREST")),
                "TEXTURE_MAG_FILTER", IF smooth THEN "LINEAR" ELSE "NEAREST")

SetSmooth(W, t, smooth) ==
    LET V == [W EXCEPT !.texs[t].smooth = smooth]
        mip == W.texs[t].mipmapLevels > 0
    IN IF ~Ok(W) THEN W
       ELSE IF smooth
            THEN TexParameter(
                     TexParameter(V, "TEXTURE_MIN_FILTER",
                                  IF mip THEN "LINEAR_MIPMAP_LINEAR" ELSE "LINEAR"),
                     "TEXTURE_MAG_FILTER", "LINEAR")
            ELSE TexParameter(
                     TexParameter(V, "TEXTURE_MIN_FILTER",
                                  IF mip THEN "LINEAR_MIPMAP_NEAREST" ELSE "NEAREST"),
                     "TEXTURE_MAG_FILTER", "NEAREST")

SetWrap(W, t, wrap) ==
    TexParameter(TexParameter(W, "TEXTURE_WRAP_S", wrap), "TEXTURE_WRAP_T", wrap)

Smooth(W, t) == W.texs[t].smooth

\* a faulty SetPixels: passes the offsets to the driver the wrong way round
SetPixelsSwapsOffsets(W, t, x, y, w, h, pixels) ==
    IF ~Ok(W) THEN W
    ELSE IF Len(pixels) # w * h * 4 THEN [W EXCEPT !.status = "panic"]
    ELSE LET V == TexSubImage2D(W, y, x, w, h, pixels, NoGarbage)
         IN IF W.texs[t].mipmapLevels > 0 THEN GenerateMipmap(V) ELSE V

\* a faulty SetPixels: regenerates the mipmaps before the upload
SetPixelsMipmapsFirst(W, t, x, y, w, h, pixels) ==
    IF ~Ok(W) THEN W
    ELSE IF Len(pixels) # w * h * 4 THEN [W EXCEPT !.status = "panic"]
    ELSE TexSubImage2D(IF W.texs[t].mipmapLevels > 0 THEN GenerateMipmap(W) ELSE W,
                       x, y, w, h, pixels, NoGarbage)

SetPixels(W, t, x, y, w, h, pixels) ==
    IF ~Ok(W) THEN W
    ELSE IF Len(pixels) # w * h * 4 THEN [W EXCEPT !.status = "panic"]
    ELSE LET V == TexSubImage2D(W, x, y, w, h, pixels, NoGarbage)
         IN IF W.texs[t].mipmapLevels > 0 THEN GenerateMipmap(V) ELSE V

\* a faulty Pixels: takes its rows from the top of the image, not from row y
PixelsFromTop(W, t, x, y, w, h) ==
    LET width  == W.texs[t].width
        height == W.texs[t].height
        img    == Cur(W).img
        pixels == GetTexImage(Zeros(width * height * 4), img)
        V      == Call(W, "GetTexImage")
        lo(i)  == i * width * 4 + x * 4
    IN IF ~Ok(W) THEN [W |-> W, ret |-> <<>>]
       ELSE IF Len(img) > width * height * 4
            THEN [W |-> [V EXCEPT !.status = "fault"], ret |-> <<>>]
       ELSE [W |-> V,
             ret |-> [k \in 1..(w * h * 4) |->
                         pixels[lo((k - 1) \div (w * 4)) + ((k - 1) % (w * 4)) + 1]]]

\* Pixels: the world after the call and the slice it returns.  Slicing the
\* full-image buffer past its end is a Go panic; an image of the bound
\* texture that is larger than the buffer overruns it.
Pixels(W, t, x, y, w, h) ==
    LET width  == W.texs[t].width
        height == W.texs[t].height
        img    == Cur(W).img
        pixels == GetTexImage(Zeros(width * height * 4), img)
        V      == Call(W, "GetTexImage")
        lo(i)  == (i + y) * width * 4 + x * 4
        hi(i)  == (i + y) * width * 4 + (x + w) * 4
    IN IF ~Ok(W) THEN [W |-> W, ret |-> <<>>]
       ELSE IF Len(img) > width * height * 4
            THEN [W |-> [V EXCEPT !.status = "fault"], ret |-> <<>>]
       ELSE IF \E i \in 0..(h - 1) : hi(i) > Len(pixels)
            THEN [W |-> [V EXCEPT !.status = "panic"], ret |-> <<>>]
       ELSE [W |-> V,
             ret |-> [k \in 1..(w * h * 4) |->
                         pixels[lo((k - 1) \div (w * 4)) + ((k - 1) % (w * 4)) + 1]]]

\* NewTexture up to its return: wrapper t (not yet in texs) around the name n
\* the driver returns, bound, filled and configured
Construct(W, t, n, width, height, mipmapLevels, smooth, pixels, g) ==
    LET tex == [tex |-> [obj |-> n, prev |-> <<>>], width |-> width, height |-> height,
                mipmapLevels |-> mipmapLevels, smooth |-> FALSE]
        W0 == GenTextures([W EXCEPT !.texs = Append(@, tex)], n)
        W1 == Begin(W0, t)
        W2 == IF mipmapLevels > 0
              THEN GenerateMipmap(
                       TexSubImage2D(TexStorage2D(W1, mipmapLevels, width, height),
                                     0, 0, width, height, pixels, g))
              ELSE TexImage2D(W1, width, height, pixels, g)
        W3 == TexParameter(W2, "TEXTURE_BORDER_COLOR", <<0, 0, 0, 0>>)
    IN SetWrap(SetSmooth(W3, t, smooth), t, "CLAMP_TO_BORDER")

\* a faulty NewTexture: without the deferred tex.End()
NewTextureKeepsBound(W, t, n, width, height, mipmapLevels, smooth, pixels, g) ==
    Construct(W, t, n, width, height, mipmapLevels, smooth, pixels, g)

\* NewTexture: the deferred tex.End() runs as it returns
NewTexture(W, t, n, width, height, mipmapLevels, smooth, pixels, g) ==
    End(Construct(W, t, n, width, height, mipmapLevels, smooth, pixels, g), t)

\* the closure delete enqueues
deleteFunc(W, t) == DeleteTextures(W, W.texs[t].tex.obj)

\* a faulty delete: enqueues the closure twice
deleteTwice(W, t) == [W EXCEPT !.queue = Append(Append(@, t), t)]

\* a faulty delete: calls the closure itself instead of handing it over
deleteNow(W, t) == deleteFunc(W, t)

\* (*Texture).delete, the finalizer: hands the closure to the main thread
delete(W, t) == [W EXCEPT !.queue = Append(@, t)]

(***************************************************************************)
(* The state machine.                                                      *)
(***************************************************************************)
\* the record of an operation.  before: the slot before NewTexture; own: the
\* native object of the wrapper before a call that should leave it alone;
\* rt, wrote: Pixels follows a SetPixels of the same rectangle, and what that
\* wrote; match, expect: End closes the innermost open Begin of a properly
\* nested run, and the slot before that Begin
NoOp ==
    [op |-> "none", t |-> 0, thread |-> "main", x |-> 0, y |-> 0, w |-> 0, h |-> 0,
     pixels |-> <<>>, smooth |-> FALSE, wrap |-> "", ret |-> <<>>, calls |-> <<>>,
     before |-> 0, own |-> NoObj, rt |-> FALSE, wrote |-> <<>>, match |-> FALSE, expect |-> 0]

Init ==
    /\ texs = <<>>
    /\ gl = [bound |-> 0, tex |-> [n \in Names |-> IF n = 0 THEN NewObj ELSE NoObj]]
    /\ life = <<>>
    /\ callQueue = <<>>
    /\ status = "ok"
    /\ last = NoOp
    /\ nest = <<>>
    /\ nested = TRUE
    /\ enq = <<>>
    /\ deleted = <<>>
    /\ clean = <<>>
    /\ ops = 0

Tex == 1..Len(texs)

Reachable == {t \in Tex : life[t] = "reachable"}

obj(t) == texs[t].tex.obj

\* the native object behind wrapper t
Native(t) == gl.tex[obj(t)]

\* wrapper t's texture occupies the binding slot
Bound(t) == gl.bound = obj(t)

\* what a method leaves behind
Commit(W) ==
    /\ texs' = W.texs
    /\ gl' = W.gl
    /\ callQueue' = W.queue
    /\ status' = W.status

\* the record of a method of wrapper t that ended in world W
Op(name, t, W) == [NoOp EXCEPT !.op = name, !.t = t, !.calls = W.calls]

\* the innermost open Begin of t, or 0
Innermost(t) ==
    LET I == {i \in 1..Len(nest) : nest[i].t = t} IN
    IF I = {} THEN 0 ELSE CHOOSE i \in I : \A j \in I : j <= i

Without(s, i) == SubSeq(s, 1, i - 1) \o SubSeq(s, i + 1, Len(s))

\* the name gl.GenTextures returns: one not in use (the lowest, as drivers do;
\* the methods never compare names, so which free name it is changes nothing)
FreeName == CHOOSE n \in Names \ {0} : ~gl.tex[n].alive /\ \A m \in 1..(n - 1) : gl.tex[m].alive

CallNewTexture(width, height, mipmapLevels, smooth, pixels) ==
    /\ status = "ok"
    /\ Len(texs) < MaxTex
    /\ \E g \in (IF Len(pixels) < width * height * 4 THEN Garbage ELSE {NoGarbage}) :
          LET t == Len(texs) + 1
              W == NewTexture(World, t, FreeName, width, height, mipmapLevels, smooth, pixels, g)
          IN /\ Commit(W)
             /\ last' = [Op("NewTexture", t, W) EXCEPT !.w = width, !.h = height,
                             !.pixels = pixels, !.smooth = smooth, !.before = gl.bound]
    /\ life' = Append(life, "reachable")
    /\ clean' = Append(clean, [arg |-> smooth, missed |-> FALSE, hit |-> FALSE])
    /\ UNCHANGED <<nest, nested, enq, deleted>>

CallBegin(t) ==
    /\ status = "ok"
    /\ t \in Reachable
    /\ Len(nest) < MaxDepth
    /\ LET W == Begin(World, t)
       IN Commit(W) /\ last' = Op("Begin", t, W)
    /\ nest' = Append(nest, [t |-> t, slot |-> gl.bound])
    /\ UNCHANGED <<life, nested, enq, deleted, clean>>

CallEnd(t) ==
    /\ status = "ok"
    /\ t \in Reachable
    /\ LET W == End(World, t)
           proper == nested /\ nest # <<>> /\ nest[Len(nest)].t = t
       IN /\ Commit(W)
          /\ last' = [Op("End", t, W) EXCEPT
                         !.match = proper,
                         !.expect = IF proper THEN nest[Len(nest)].slot ELSE 0]
          /\ nested' = proper
    /\ nest' = IF Innermost(t) = 0 THEN nest ELSE Without(nest, Innermost(t))
    /\ UNCHANGED <<life, enq, deleted, clean>>

\* clean[u] after SetSmooth(smooth) on t: arg is the argument of the last
\* call on u, missed says a call on u ran while u's texture was not bound, hit
\* says a call on another wrapper ran while u's texture was bound
Cleanliness(u, t, smooth) ==
    [arg    |-> IF u = t THEN smooth ELSE clean[u].arg,
     missed |-> clean[u].missed \/ (u = t /\ ~Bound(t)),
     hit    |-> clean[u].hit \/ (u # t /\ Bound(u) /\ life[u] # "deleted")]

CallSetSmooth(t, smooth) ==
    /\ status = "ok"
    /\ t \in Reachable
    /\ LET W == SetSmooth(World, t, smooth)
       IN Commit(W) /\ last' = [Op("SetSmooth", t, W) EXCEPT
                                   !.smooth = smooth,
                                   !.own = IF Bound(t) THEN NoObj ELSE Native(t)]
    /\ clean' = [u \in Tex |-> Cleanliness(u, t, smooth)]
    /\ UNCHANGED <<life, nest, nested, enq, deleted>>

CallSetWrap(t, wrap) ==
    /\ status = "ok"
    /\ t \in Reachable
    /\ LET W == SetWrap(World, t, wrap)
       IN Commit(W) /\ last' = [Op("SetWrap", t, W) EXCEPT
                                   !.wrap = wrap,
                                   !.own = IF Bound(t) THEN NoObj ELSE Native(t)]
    /\ UNCHANGED <<life, nest, nested, enq, deleted, clean>>

CallSetPixels(t, x, y, w, h, pixels) ==
    /\ status = "ok"
    /\ t \in Reachable
    /\ LET W == SetPixels(World, t, x, y, w, h, pixels)
       IN Commit(W) /\ last' = [Op("SetPixels", t, W) EXCEPT
                                   !.x = x, !.y = y, !.w = w, !.h = h, !.pixels = pixels,
                                   !.own = IF Bound(t) THEN NoObj ELSE Native(t)]
    /\ UNCHANGED <<life, nest, nested, enq, deleted, clean>>

\* the last operation was a SetPixels of wrapper t, bound, that wrote the
\* rectangle (x, y, w, h) inside the texture
JustWrote(t, x, y, w, h) ==
    /\ last.op = "SetPixels" /\ last.t = t
    /\ last.x = x /\ last.y = y /\ last.w = w /\ last.h = h
    /\ Bound(t)
    /\ x + w <= texs[t].width /\ y + h <= texs[t].height

CallPixels(t, x, y, w, h) ==
    /\ status = "ok"
    /\ t \in Reachable
    /\ LET R == Pixels(World, t, x, y, w, h)
       IN /\ Commit(R.W)
          /\ last' = [Op("Pixels", t, R.W) EXCEPT
                         !.x = x, !.y = y, !.w = w, !.h = h, !.ret = R.ret,
                         !.own = Native(t),
                         !.rt = JustWrote(t, x, y, w, h),
                         !.wrote = IF JustWrote(t, x, y, w, h) THEN last.pixels ELSE <<>>]
    /\ UNCHANGED <<life, nest, nested, enq, deleted, clean>>

\* the program lets go of its last reference to wrapper t
Drop(t) ==
    /\ status = "ok"
    /\ t \in Reachable
    /\ life' = [life EXCEPT ![t] = "unreachable"]
    /\ nested' = (nested /\ Innermost(t) = 0)
    /\ last' = [Op("Drop", t, World) EXCEPT !.thread = "program"]
    /\ UNCHANGED <<texs, gl, callQueue, status, nest, enq, deleted, clean>>

\* the runtime runs the finalizer NewTexture set, once, on its own goroutine
RunFinalizer(t) ==
    /\ status = "ok"
    /\ t \in Tex /\ life[t] = "unreachable"
    /\ LET W == delete(World, t)
       IN /\ Commit(W)
          /\ last' = [Op("delete", t, W) EXCEPT !.thread = "finalizer"]
          /\ enq' = enq \o SubSeq(W.queue, Len(callQueue) + 1, Len(W.queue))
          /\ deleted' = deleted \o [i \in 1..Len(W.calls) |->
                                       [t |-> t, thread |-> "finalizer", alive |-> Native(t).alive]]
    /\ life' = [life EXCEPT ![t] = "finalized"]
    /\ UNCHANGED <<nest, nested, clean>>

\* the main thread takes the next call from its queue and runs it
RunQueued ==
    /\ status = "ok"
    /\ callQueue # <<>>
    /\ LET t == Head(callQueue)
           W == deleteFunc([World EXCEPT !.queue = Tail(@)], t)
       IN /\ Commit(W)
          /\ last' = Op("deleteFunc", t, W)
          /\ deleted' = Append(deleted, [t |-> t, thread |-> "main", alive |-> Native(t).alive])
          /\ life' = [life EXCEPT ![t] = "deleted"]
    /\ UNCHANGED <<nest, nested, enq, clean>>

(***************************************************************************)
(* Specifications.  Spec: binding and lifetime, with 1x1 textures.         *)
(***************************************************************************)
Next ==
    /\ UNCHANGED ops
    /\ \/ CallNewTexture(1, 1, 0, FALSE, Ramp(InitSeed, 4))
       \/ \E t \in Tex : CallBegin(t)
       \/ \E t \in Tex : CallEnd(t)
       \/ \E t \in Tex : Drop(t)
       \/ \E t \in Tex : RunFinalizer(t)
       \/ RunQueued

Spec == Init /\ [][Next]_vars

(***************************************************************************)
(* FairSpec: the lifetime of the wrappers, under a main thread that keeps  *)
(* running its queue.                                                      *)
(***************************************************************************)
MainThreadRuns == RunQueued /\ UNCHANGED ops

LifeNext ==
    \/ CallNewTexture(1, 1, 0, FALSE, Ramp(InitSeed, 4)) /\ UNCHANGED ops
    \/ \E t \in Tex : CallBegin(t) /\ UNCHANGED ops
    \/ \E t \in Tex : Drop(t) /\ UNCHANGED ops
    \/ \E t \in Tex : RunFinalizer(t) /\ UNCHANGED ops
    \/ MainThreadRuns

FairSpec == Init /\ [][LifeNext]_vars /\ WF_vars(MainThreadRuns)

(***************************************************************************)
(* SamplerSpec: the sampling parameters, with 1x1 textures that stay       *)
(* referenced, in runs of at most MaxOps calls.                            *)
(***************************************************************************)
Wraps == {"CLAMP_TO_EDGE", "CLAMP_TO_BORDER", "REPEAT"}

SamplerNext ==
    /\ ops < MaxOps
    /\ ops' = ops + 1
    /\ \/ \E m \in {0, 1}, b \in BOOLEAN : CallNewTexture(1, 1, m, b, Ramp(InitSeed, 4))
       \/ \E t \in Tex : CallBegin(t)
       \/ \E t \in Tex : CallEnd(t)
       \/ \E t \in Tex, b \in BOOLEAN : CallSetSmooth(t, b)
       \/ \E t \in Tex, wrap \in Wraps : CallSetWrap(t, wrap)
       \/ \E t \in Tex : CallSetPixels(t, 0, 0, 1, 1, Ramp(Seed, 4))

SamplerSpec == Init /\ [][SamplerNext]_vars

(***************************************************************************)
(* SizeSpec: pixel buffers of the right and of the wrong length, with 1x1  *)
(* textures, in runs of at most MaxOps calls.                              *)
(***************************************************************************)
\* the buffers a caller may pass for n bytes: the right length, one byte
\* short, one byte long
Buffers(seed, n) == {Ramp(seed, n), Ramp(seed, n - 1), Ramp(seed, n + 1)}

SizeNext ==
    /\ ops < MaxOps
    /\ ops' = ops + 1
    /\ \/ \E m \in {0, 1}, pixels \in Buffers(InitSeed, 4) : CallNewTexture(1, 1, m, FALSE, pixels)
       \/ \E t \in Tex : CallBegin(t)
       \/ \E t \in Tex : CallEnd(t)
       \/ \E t \in Tex, pixels \in Buffers(Seed, 4) : CallSetPixels(t, 0, 0, 1, 1, pixels)

SizeSpec == Init /\ [][SizeNext]_vars

(***************************************************************************)
(* PixSpec: the pixels of one MaxW x MaxH texture, created and bound, in   *)
(* runs of at most MaxPixOps calls of SetPixels and Pixels.                *)
(***************************************************************************)
\* the rectangles inside the texture
Rects ==
    {r \in [x : 0..(MaxW - 1), y : 0..(MaxH - 1), w : 1..MaxW, h : 1..MaxH] :
        r.x + r.w <= MaxW /\ r.y + r.h <= MaxH}

PixNext ==
    \/ /\ texs = <<>>
       /\ \E m \in {0, 2} : CallNewTexture(MaxW, MaxH, m, FALSE, Ramp(InitSeed, MaxW * MaxH * 4))
       /\ UNCHANGED ops
    \/ /\ nest = <<>>
       /\ \E t \in Tex : CallBegin(t)
       /\ UNCHANGED ops
    \/ /\ ops < MaxPixOps
       /\ ops' = ops + 1
       /\ \/ \E t \in Tex, r \in Rects :
                CallSetPixels(t, r.x, r.y, r.w, r.h, Ramp(Seed, r.w * r.h * 4))
          \/ \E t \in Tex, r \in Rects : CallPixels(t, r.x, r.y, r.w, r.h)

PixSpec == Init /\ [][PixNext]_vars

(***************************************************************************)
(* Properties.                                                             *)
(***************************************************************************)
Count(seq, v) == Cardinality({i \in 1..Len(seq) : seq[i] = v})

\* C1: after an End that closes the innermost open Begin of a properly nested
\* run, the binding slot holds the handle it held just before that Begin.
EndRestoresSlot ==
    (last.op = "End" /\ last.match) => (status = "ok" /\ gl.bound = last.expect)

\* C1's case: Begin(A), Begin(B), End(B) has just run and A is bound again
WitnessNestedEnd ==
    /\ last.op = "End" /\ last.match
    /\ Len(nest) = 1 /\ nest[1].t # last.t
    /\ gl.bound = obj(nest[1].t) /\ gl.bound # 0

\* C2: NewTexture generates exactly one texture name, and when it returns the
\* binding slot holds what it held before the call, not the new texture.
NewTextureRestoresSlot ==
    (last.op = "NewTexture" /\ status = "ok") =>
        /\ Count(last.calls, "GenTextures") = 1
        /\ gl.bound = last.before
        /\ gl.bound # obj(last.t)
        /\ Native(last.t).alive

\* C2's case: NewTexture has run while another texture was bound
WitnessNewTextureWhileBound ==
    last.op = "NewTexture" /\ last.before # 0 /\ gl.bound = last.before

\* C7: a wrapper's deletion is enqueued once and runs once, on a texture that
\* was live; never for a reachable wrapper; and no two wrappers own (and so
\* delete) the same live handle.
DeletedOnce ==
    /\ \A t \in Tex : Count(enq, t) = (IF life[t] \in {"finalized", "deleted"} THEN 1 ELSE 0)
    /\ \A t \in Tex : Count([i \in 1..Len(deleted) |-> deleted[i].t], t)
                          = (IF life[t] = "deleted" THEN 1 ELSE 0)
    /\ \A i \in 1..Len(deleted) : deleted[i].alive
    /\ \A t \in Tex : life[t] # "deleted" => Native(t).alive
    /\ \A t, u \in Tex : (t # u /\ life[t] # "deleted" /\ life[u] # "deleted") => obj(t) # obj(u)

\* C7's case: two wrappers were deleted, the second one owning the name the
\* driver had handed out again after the first deletion
WitnessNameReused ==
    \E t, u \in Tex : t # u /\ life[t] = "deleted" /\ life[u] = "deleted" /\ obj(t) = obj(u)

InQueue(t) == \E i \in 1..Len(callQueue) : callQueue[i] = t

\* C8: the finalizer only enqueues (it makes no OpenGL call and the delete has
\* not run when it returns); native deletes run on the main thread only, in
\* the order of their enqueueing; and while the main thread keeps running
\* (the process has not ended), every enqueued deletion is eventually executed.
DeletionHandedOff ==
    /\ [](last.op = "delete" => (last.thread = "finalizer" /\ last.calls = <<>>
                                  /\ InQueue(last.t) /\ Native(last.t).alive))
    /\ [](\A i \in 1..Len(deleted) : deleted[i].thread = "main")
    /\ [](enq = [i \in 1..Len(deleted) |-> deleted[i].t] \o callQueue)
    /\ \A t \in 1..(MaxTex + 1) :
          InQueue(t) ~> ((t \in Tex /\ life[t] = "deleted" /\ ~InQueue(t)) \/ status # "ok")

\* C8's case: two deletions ran, in the order of their enqueueing, which is
\* not the order of creation
WitnessFifo ==
    /\ Len(deleted) = 2 /\ deleted[1].t = 2 /\ deleted[2].t = 1
    /\ enq = <<2, 1>>

\* C9: SetSmooth on a bound texture sets the magnification filter to LINEAR
\* or NEAREST and the minification filter to LINEAR_MIPMAP_LINEAR / LINEAR or
\* NEAREST_MIPMAP_NEAREST / NEAREST, by its argument and by whether the
\* texture has mipmaps.
SetSmoothFilters ==
    (last.op = "SetSmooth" /\ Bound(last.t)) =>
        LET mip == texs[last.t].mipmapLevels > 0 IN
        /\ Native(last.t).TEXTURE_MAG_FILTER = (IF last.smooth THEN "LINEAR" ELSE "NEAREST")
        /\ Native(last.t).TEXTURE_MIN_FILTER =
               (IF last.smooth
                THEN (IF mip THEN "LINEAR_MIPMAP_LINEAR" ELSE "LINEAR")
                ELSE (IF mip THEN "NEAREST_MIPMAP_NEAREST" ELSE "NEAREST"))

\* the magnification filter of wrapper t's texture is linear exactly when Smooth() is true
MagMatches(t) == (Native(t).TEXTURE_MAG_FILTER = "LINEAR") <=> Smooth(World, t)

\* a call on last.t that ran while another texture occupied the slot left the
\* texture of last.t alone and landed on the texture in the slot
Misdirected ==
    (last.op \in {"SetSmooth", "SetWrap", "SetPixels"} /\ ~Bound(last.t) /\ status = "ok") =>
        /\ Native(last.t) = last.own
        /\ last.op = "SetSmooth" =>
               gl.tex[gl.bound].TEXTURE_MAG_FILTER = (IF last.smooth THEN "LINEAR" ELSE "NEAREST")
        /\ last.op = "SetWrap" =>
               /\ gl.tex[gl.bound].TEXTURE_WRAP_S = last.wrap
               /\ gl.tex[gl.bound].TEXTURE_WRAP_T = last.wrap
        /\ (last.op = "SetPixels" /\ gl.bound # 0) => gl.tex[gl.bound].img = last.pixels

\* C10 as stated: Smooth() is the argument of the last SetSmooth call (or of
\* the constructor); a texture all of whose SetSmooth calls ran while it was
\* bound has a linear magnification filter exactly when Smooth() is true; and
\* a call on T while another texture is bound changes that texture, not T's.
SmoothMatchesOwnCalls ==
    /\ \A t \in Tex : Smooth(World, t) = clean[t].arg
    /\ \A t \in Tex : ~clean[t].missed => MagMatches(t)
    /\ Misdirected

\* C10 as amended: the same, for a texture all of whose SetSmooth calls ran
\* while it was bound and that was not bound during a SetSmooth call on another
\* texture.
SmoothMatchesNative ==
    /\ \A t \in Tex : Smooth(World, t) = clean[t].arg
    /\ \A t \in Tex : (~clean[t].missed /\ ~clean[t].hit) => MagMatches(t)
    /\ Misdirected

\* C10's case: SetSmooth(true) has just run on a bound texture that no other
\* call touched, while another wrapper's flag disagrees with its texture after
\* a call that missed it
WitnessSmooth ==
    /\ last.op = "SetSmooth" /\ last.smooth /\ Bound(last.t)
    /\ ~clean[last.t].missed /\ ~clean[last.t].hit /\ MagMatches(last.t)
    /\ \E u \in Tex : u # last.t /\ clean[u].missed /\ ~MagMatches(u)

Inside(t, x, y, w, h) ==
    x >= 0 /\ y >= 0 /\ w >= 1 /\ h >= 1 /\ x + w <= texs[t].width /\ y + h <= texs[t].height

\* C3: on a bound texture, Pixels over the rectangle a SetPixels has just
\* written returns the bytes written, with and without mipmaps.
RoundTrip ==
    (last.op = "Pixels" /\ last.rt) => (status = "ok" /\ last.ret = last.wrote)

\* C3's case: a rectangle of a texture with mipmaps, away from the origin and
\* more than one row high, was written and read back
WitnessRoundTrip ==
    /\ last.op = "Pixels" /\ last.rt
    /\ texs[last.t].mipmapLevels > 0
    /\ last.x > 0 /\ last.h > 1
    /\ last.ret = Ramp(Seed, last.w * last.h * 4)

\* C4: on a bound texture, Pixels over a rectangle inside it returns w*h*4
\* bytes, row i being bytes (y+i)*width*4 + x*4 up to (y+i)*width*4 + (x+w)*4
\* of the level-0 image, and leaves the texture as it was.
SubRectangle ==
    (last.op = "Pixels" /\ Bound(last.t) /\ Inside(last.t, last.x, last.y, last.w, last.h)) =>
        LET x == last.x
            y == last.y
            w == last.w
            h == last.h
            width == texs[last.t].width
            img == Native(last.t).img
        IN /\ status = "ok"
           /\ Len(last.ret) = w * h * 4
           /\ \A i \in 0..(h - 1) :
                 SubSeq(last.ret, i * w * 4 + 1, (i + 1) * w * 4)
                     = SubSeq(img, (y + i) * width * 4 + x * 4 + 1, (y + i) * width * 4 + (x + w) * 4)
           /\ Native(last.t) = last.own

\* C4's case: a one-pixel-wide rectangle on the last row and column of an
\* image whose rows differ was read
WitnessSubRectangle ==
    /\ last.op = "Pixels" /\ Bound(last.t)
    /\ last.x = texs[last.t].width - 1 /\ last.y = texs[last.t].height - 1
    /\ last.w = 1 /\ last.h = 1
    /\ last.ret = SubSeq(Ramp(InitSeed, MaxW * MaxH * 4), MaxW * MaxH * 4 - 3, MaxW * MaxH * 4)

Uploads == {"TexImage2D", "TexSubImage2D"}

\* C5: NewTexture and SetPixels with a buffer whose length is not w*h*4 fail
\* with the size error, before any upload or mipmap generation.
SizeMismatchFails ==
    (last.op \in {"NewTexture", "SetPixels"} /\ Len(last.pixels) # last.w * last.h * 4) =>
        /\ status = "panic"
        /\ \A i \in 1..Len(last.calls) : last.calls[i] \notin Uploads \cup {"GenerateMipmap"}

\* C6: the construction and every successful SetPixels of a texture with
\* mipmaps call GenerateMipmap exactly once, after the upload; those of a
\* texture without mipmaps never call it.
MipmapRegeneration ==
    (last.op \in {"NewTexture", "SetPixels"} /\ status = "ok") =>
        IF texs[last.t].mipmapLevels > 0
        THEN /\ Count(last.calls, "GenerateMipmap") = 1
             /\ \E i, j \in 1..Len(last.calls) :
                   i < j /\ last.calls[i] \in Uploads /\ last.calls[j] = "GenerateMipmap"
        ELSE Count(last.calls, "GenerateMipmap") = 0

\* C6's case: a successful SetPixels on a texture with mipmaps
WitnessMipmapRegeneration ==
    /\ last.op = "SetPixels" /\ status = "ok"
    /\ texs[last.t].mipmapLevels > 0
    /\ last.calls = <<"TexSubImage2D", "GenerateMipmap">>

====
